---- MODULE Spec2Model ----
(***************************************************************************)
(* Model of src/index.js.  The file holds three bots one after the other:  *)
(*   "gemini"  lines   1-191  per-thread async.queue whose worker runs     *)
(*                            processMessageWithGemini on a flat history   *)
(*   "queue"   lines 193-507  per-thread async.queue whose worker runs     *)
(*                            processMessage on chat sessions              *)
(*   "direct"  lines 510-837  the listener processes each event inside its *)
(*                            own async callback, without a queue          *)
(* One behaviour of the model is one run of one of the three bots.  Every  *)
(* action is one run-to-completion segment of JavaScript: the code between *)
(* two suspensions of the event loop (an awaited network call or timer).   *)
(***************************************************************************)
EXTENDS Integers, Sequences, FiniteSets, TLC

\* ---------------------------------------------------------------- bounds
MaxEvents == 2

\* weights and draws of getReplyAction are multiples of 1 / PolicyScale
PolicyScale == 6

\* ------------------------------------------------------- program constants
ConcurrencyTwo == 1 + 1
Concurrency == 1
CONTEXT_WINDOW == 1
PROB_SCALE == 4
PROB_REPLY == 2
PROB_REACT == 1

Threads == {"t1", "t2"}
ADMIN_UIDS == {"adm"}
BOT_NAME == "bot"
Undefined == "undefined"
ResetCommand == "!history reset"
Variants == {"gemini", "queue", "direct"}

VARIABLES
  variant,        \* which of the three bots of the file runs
  configFile,     \* config.json: "ok", "missing" or "malformed"
  appStateFile,   \* appstate.json: "ok", "missing" or "malformed"
  historyFile,    \* the history file: "ok", "missing" or "malformed"
  proc,           \* the process: "boot", "listening", "exit0" or "exit1"
  policy,         \* PROBABILITIES, a draw of Math.random and the action chosen
  wrapAsync,      \* async.queue wraps an AsyncFunction worker (no callback argument)
  apiBound,       \* the free identifier `api` of getThreadQueue resolves
  arrived,        \* per thread: the events received (the last one's messageID)
  dropped,        \* per thread: <<messageID, type>> of the events the listener let go
  threadQueues,   \* keys of the Map threadQueues
  queuesCreated,  \* per thread: the async.queue objects created for it
  q,              \* per queue: the tasks waiting, oldest first
  running,        \* per queue: workers started and not yet signalled complete
  timers,         \* per queue: a setTimeout(callback, getRandomDelay()) is armed
  inflight,       \* activations of processMessageWithGemini / processMessage / listener
  threadHistory,  \* threadHistory (gemini) / persistedHistory (queue, direct)
  snapshot,       \* content of the history file
  chats,          \* per thread: the histories held by the chat objects created so far
  chatSessions,   \* chatSessions[threadID]: index into chats, 0 when the key is absent
  done,           \* per thread: the messageIDs whose processing has ended
  failed          \* per thread: the messageIDs whose handler ended by throwing

\* what stays as it is once the listener runs
env == <<variant, wrapAsync, apiBound, configFile, appStateFile, historyFile, proc,
         policy>>

vars == <<env, arrived, dropped, threadQueues, queuesCreated, q, running, timers,
          inflight, threadHistory, snapshot, chats, chatSessions, done, failed>>

\* ------------------------------------------------------------ data model
UserTurn == [role |-> "user", text |-> "in"]
ModelTurn == [role |-> "model", text |-> "out"]
ModelPlaceholder == [role |-> "model", text |-> "..."]
UserPlaceholder == [role |-> "user", text |-> "..."]

Absent == [present |-> FALSE, turns |-> <<>>]
Entry(s) == [present |-> TRUE, turns |-> s]

\* Array.prototype.splice(start, deleteCount) for 0-based start
SpliceDelete(s, start, cnt) ==
  [i \in 1..(Len(s) - (IF start + cnt > Len(s) THEN Len(s) - start ELSE cnt)) |->
     IF i <= start THEN s[i] ELSE s[i + cnt]]

\* Array.prototype.splice(start, 0, x) for 0-based start
SpliceInsert(s, start, x) ==
  [i \in 1..(Len(s) + 1) |->
     IF i <= start THEN s[i] ELSE IF i = start + 1 THEN x ELSE s[i - 1]]

\* String.prototype.trim on the message bodies of the model
Trim(b) == IF b = " !history reset " THEN "!history reset" ELSE b

\* String.prototype.toLowerCase on the message bodies of the model
ToLowerCase(b) == IF b = "!History Reset" THEN "!history reset" ELSE b

\* String.prototype.includes(BOT_NAME) on the message bodies of the model
IncludesBotName(b) == b = "hi " \o BOT_NAME

\* the inbound events the listener can receive in thread t
TypedEvent(type, sender, body, att) ==
  [type |-> type, senderID |-> sender, body |-> body, att |-> att]

Event(sender, body, att) == TypedEvent("message", sender, body, att)

EventKinds(t) ==
  { TypedEvent("message_reply", "usr", "hi", FALSE),
    TypedEvent("typ", "usr", "", FALSE) } \cup
  IF variant = "gemini"
  THEN { Event("usr", "hi", FALSE),
         Event("usr", ResetCommand, FALSE),
         Event("adm", ResetCommand, FALSE),
         Event("adm", Undefined, TRUE) }
  ELSE { Event("usr", "hi", FALSE),
         Event("usr", "hi bot", FALSE),
         Event("usr", "", TRUE),
         Event("usr", ResetCommand, FALSE),
         Event(t, ResetCommand, FALSE),
         Event("usr", Undefined, TRUE) }

\* the histories a snapshot file can hold for one thread at startup
StartHistories == { Absent, Entry(<<UserTurn>>), Entry(<<UserTurn, ModelTurn>>) }

RECURSIVE SumOver(_, _)
SumOver(f, S) ==
  IF S = {} THEN 0
  ELSE LET x == CHOOSE y \in S : TRUE IN f[x] + SumOver(f, S \ {x})

\* events received so far
Received == SumOver(arrived, Threads)

OnThread(t) == { w \in inflight : w.thread = t }

\* the task object the listener builds from an event (the bots "queue" and
\* "direct" pass the event itself); type is the type of that event
Task(ev, id) ==
  [type |-> ev.type, senderID |-> ev.senderID, messageID |-> id, body |-> ev.body,
   att |-> ev.att]

\* one activation of a message handler on a task of thread t; saved tells
\* whether the activation has called saveHistory
Activation(t, task, pcv, out, sentv, chat) ==
  [id |-> task.messageID, type |-> task.type, thread |-> t, senderID |-> task.senderID,
   body |-> task.body, att |-> task.att, pc |-> pcv, outcome |-> out,
   sent |-> sentv, chat |-> chat, pre |-> <<>>, typed |-> FALSE,
   saved |-> FALSE]

Ended(w) == w.pc \in {"returned", "threw"}

\* a file read at startup is there and parses, is not there, or does not parse
FileStates == {"ok", "missing", "malformed"}

\* ---------------------------------------------------------------- Init
Init ==
  /\ variant \in Variants
  /\ wrapAsync \in BOOLEAN
  /\ apiBound \in BOOLEAN
  /\ variant = "gemini" => apiBound
  /\ variant = "direct" => apiBound /\ ~wrapAsync
  /\ configFile \in FileStates
  /\ appStateFile \in FileStates
  /\ historyFile \in FileStates
  /\ proc = "boot"
  /\ policy = [REPLY |-> PROB_REPLY, REACT |-> PROB_REACT, r |-> 0, action |-> "none"]
  /\ arrived = [t \in Threads |-> 0]
  /\ dropped = [t \in Threads |-> {}]
  /\ threadQueues = {}
  /\ queuesCreated = [t \in Threads |-> 0]
  /\ q = [t \in Threads |-> <<>>]
  /\ running = [t \in Threads |-> 0]
  /\ timers = [t \in Threads |-> FALSE]
  /\ inflight = {}
  /\ threadHistory = [t \in Threads |-> Absent]
  /\ snapshot \in [Threads -> StartHistories]
  /\ historyFile # "ok" => snapshot = [t \in Threads |-> Absent]
  /\ chats = [t \in Threads |-> <<>>]
  /\ chatSessions = [t \in Threads |-> 0]
  /\ done = [t \in Threads |-> {}]
  /\ failed = [t \in Threads |-> {}]

\* ------------------------------------------------------------- startup
\* The module's top-level code up to the registration of the listener:
\* config.json (exit(1) when it cannot be read or parsed), the history file
\* (an unreadable one leaves the map empty), appstate.json.  "queue" and
\* "direct" call process.exit(1) when appstate.json fails; "gemini" reads it
\* inside main(), whose rejection main().catch(console.error) only logs, so
\* the process runs out of work and ends with status 0.
Boot ==
  /\ proc = "boot"
  /\ IF configFile # "ok"
     THEN /\ proc' = "exit1"
          /\ UNCHANGED threadHistory
     ELSE /\ threadHistory' = IF historyFile = "ok" THEN snapshot
                              ELSE [t \in Threads |-> Absent]
          /\ proc' = IF appStateFile = "ok" THEN "listening"
                     ELSE IF variant = "gemini" THEN "exit0" ELSE "exit1"
  /\ UNCHANGED <<variant, wrapAsync, apiBound, configFile, appStateFile, historyFile,
                 policy, arrived, dropped, threadQueues, queuesCreated, q, running,
                 timers, inflight, snapshot, chats, chatSessions, done, failed>>

\* ------------------------------------------- history store of "gemini"
\* history.push(user); if (history.length > CONTEXT_WINDOW * 2) history.splice(0, 2)
PushAndTrim(h) ==
  LET p == Append(h, UserTurn)
  IN IF Len(p) > CONTEXT_WINDOW * 2 THEN SpliceDelete(p, 0, 2) ELSE p

\* first repair: two user turns at the end
RepairUser(h) ==
  IF Len(h) > 1 /\ h[Len(h)].role = "user" /\ h[Len(h) - 1].role = "user"
  THEN SpliceInsert(h, Len(h) - 2, ModelPlaceholder)
  ELSE h

\* second repair: two model turns at the end
RepairModel(h) ==
  IF Len(h) > 1 /\ h[Len(h)].role = "model" /\ h[Len(h) - 1].role = "model"
  THEN SpliceInsert(h, Len(h) - 1, UserPlaceholder)
  ELSE h

Repair(h) == RepairModel(RepairUser(h))

\* ------------------------------------------------------------ listener
\* mutant of Push: the task goes in front of the waiting ones (unshift)
PushFront(tasks, task) == <<task>> \o tasks

\* async.queue: push appends the task behind the waiting ones
Push(tasks, task) == Append(tasks, task)

\* mutant of NeedsQueue: a queue is created for every task
AlwaysNeedsQueue(t) == TRUE

\* !threadQueues.has(threadID)
NeedsQueue(t) == t \notin threadQueues

\* queue.push(task) on the queue of thread t; the queue is created by
\* async.queue and put into the Map when the Map lacks the key
Enqueue(t, task) ==
  /\ threadQueues' = threadQueues \cup {t}
  /\ queuesCreated' = [queuesCreated EXCEPT ![t] = IF NeedsQueue(t) THEN @ + 1 ELSE @]
  /\ q' = [q EXCEPT ![t] = Push(IF NeedsQueue(t) THEN <<>> ELSE @, task)]

\* the listener lets the event go
Drop(t, ev) == dropped' = [dropped EXCEPT ![t] = @ \cup {<<arrived'[t], ev.type>>}]

ListenGemini(t, ev) ==
  /\ variant = "gemini"
  /\ proc = "listening"
  /\ Received < MaxEvents
  /\ arrived' = [arrived EXCEPT ![t] = @ + 1]
  /\ IF ev.type \in {"message", "message_reply"}
     THEN Enqueue(t, Task(ev, arrived'[t])) /\ UNCHANGED dropped
     ELSE Drop(t, ev) /\ UNCHANGED <<threadQueues, queuesCreated, q>>
  /\ UNCHANGED <<env, running, timers, inflight,
                 threadHistory, snapshot, chats, chatSessions, done, failed>>

\* mutant of WorkerFree: one worker pool for all conversations
WorkerFreeShared(t) == SumOver(running, Threads) < Concurrency

\* async.queue of thread t has a worker to spare
WorkerFree(t) == running[t] < Concurrency

\* ------------------------------------------ processMessageWithGemini
\* mutant of IsAdmin: the allow-list is not consulted
AnyoneIsAdmin(senderID) == TRUE

\* config.ADMIN_UIDS.includes(senderID)
IsAdmin(senderID) == senderID \in ADMIN_UIDS

\* mutant of CatchGemini: every error clears the history, blocked or not
CatchGeminiAlwaysClears(w, err) ==
  /\ threadHistory' = [threadHistory EXCEPT ![w.thread] = Absent]
  /\ snapshot' = threadHistory'
  /\ inflight' = (inflight \ {w}) \cup
                   {[w EXCEPT !.pc = "returned", !.outcome = w.pc \o "_" \o err]}

\* mutant of CatchGemini: a blocked call deletes the history without saving
CatchGeminiNoSave(w, err) ==
  /\ IF err = "block"
     THEN /\ threadHistory' = [threadHistory EXCEPT ![w.thread] = Absent]
          /\ UNCHANGED snapshot
     ELSE UNCHANGED <<threadHistory, snapshot>>
  /\ inflight' = (inflight \ {w}) \cup
                   {[w EXCEPT !.pc = "returned", !.outcome = w.pc \o "_" \o err]}

\* the catch block of processMessageWithGemini
CatchGemini(w, err) ==
  /\ IF err = "block"
     THEN /\ threadHistory' = [threadHistory EXCEPT ![w.thread] = Absent]
          /\ snapshot' = threadHistory'
     ELSE UNCHANGED <<threadHistory, snapshot>>
  /\ inflight' = (inflight \ {w}) \cup
                   {[w EXCEPT !.pc = "returned", !.outcome = w.pc \o "_" \o err,
                              !.saved = @ \/ err = "block"]}

\* async.queue starts its worker on the oldest task; the worker runs
\* processMessageWithGemini up to the await of the filter call
StartGemini(t) ==
  /\ variant = "gemini"
  /\ t \in threadQueues
  /\ WorkerFree(t)
  /\ q[t] # <<>>
  /\ LET task == Head(q[t])
         isAdmin == IsAdmin(task.senderID)
         act(pcv, out) == Activation(t, task, pcv, out, {}, 0)
     IN /\ q' = [q EXCEPT ![t] = Tail(@)]
        /\ running' = [running EXCEPT ![t] = @ + 1]
        /\ IF isAdmin /\ task.body = Undefined
           THEN \* body.trim() on undefined
                /\ inflight' = inflight \cup {act("threw", "type_error")}
                /\ UNCHANGED <<threadHistory, snapshot>>
           ELSE IF isAdmin /\ Trim(task.body) = ResetCommand
           THEN /\ threadHistory' = [threadHistory EXCEPT ![t] = Absent]
                /\ snapshot' = threadHistory'
                /\ inflight' = inflight \cup
                     {[act("returned", "reset") EXCEPT !.saved = TRUE]}
           ELSE \E skip \in BOOLEAN :
                  IF skip
                  THEN /\ inflight' = inflight \cup {act("returned", "skipped")}
                       /\ UNCHANGED <<threadHistory, snapshot>>
                  ELSE /\ threadHistory' =
                            [threadHistory EXCEPT ![t] = Entry(@.turns)]
                       /\ inflight' = inflight \cup {act("filter", "none")}
                       /\ UNCHANGED snapshot
  /\ UNCHANGED <<env, arrived, dropped, threadQueues, queuesCreated, timers,
                 chats, chatSessions, done, failed>>

\* the filter call settles
FilterGemini(w) ==
  /\ variant = "gemini"
  /\ w \in inflight
  /\ w.pc = "filter"
  /\ \E res \in {"MESSAGE", "REACTION", "IGNORE", "OTHER", "block", "fail"} :
       CASE res = "IGNORE" ->
              /\ inflight' = (inflight \ {w}) \cup
                   {[w EXCEPT !.pc = "returned", !.outcome = "filter_ignore"]}
              /\ UNCHANGED <<threadHistory, snapshot>>
         [] res = "OTHER" ->
              /\ inflight' = (inflight \ {w}) \cup
                   {[w EXCEPT !.pc = "returned", !.outcome = "filter_other"]}
              /\ UNCHANGED <<threadHistory, snapshot>>
         [] res = "REACTION" ->
              /\ inflight' = (inflight \ {w}) \cup
                   {[w EXCEPT !.pc = "react", !.sent = @ \cup {"reaction"}]}
              /\ UNCHANGED <<threadHistory, snapshot>>
         [] res = "MESSAGE" ->
              /\ threadHistory' = [threadHistory EXCEPT ![w.thread] =
                     Entry(Repair(PushAndTrim(@.turns)))]
              /\ inflight' = (inflight \ {w}) \cup
                   {[w EXCEPT !.pc = "llm",
                              !.pre = PushAndTrim(threadHistory[w.thread].turns)]}
              /\ UNCHANGED snapshot
         [] OTHER -> CatchGemini(w, res)
  /\ UNCHANGED <<env, arrived, dropped, threadQueues, queuesCreated, q, running,
                 timers, chats, chatSessions, done, failed>>

\* fcaApi.setMessageReaction settles
ReactGemini(w) ==
  /\ variant = "gemini"
  /\ w \in inflight
  /\ w.pc = "react"
  /\ \E res \in {"ok", "block", "fail"} :
       IF res = "ok"
       THEN /\ inflight' = (inflight \ {w}) \cup
                   {[w EXCEPT !.pc = "returned", !.outcome = "reacted"]}
            /\ UNCHANGED <<threadHistory, snapshot>>
       ELSE CatchGemini(w, res)
  /\ UNCHANGED <<env, arrived, dropped, threadQueues, queuesCreated, q, running,
                 timers, chats, chatSessions, done, failed>>

\* the main generateContent call settles
LlmGemini(w) ==
  /\ variant = "gemini"
  /\ w \in inflight
  /\ w.pc = "llm"
  /\ \E res \in {"text", "empty", "block", "fail"} :
       CASE res = "text" ->
              /\ threadHistory' = [threadHistory EXCEPT ![w.thread] =
                     Entry(Append(@.turns, ModelTurn))]
              /\ snapshot' = threadHistory'
              /\ inflight' = (inflight \ {w}) \cup
                   {[w EXCEPT !.pc = "send", !.sent = @ \cup {"message"},
                              !.saved = TRUE]}
         [] res = "empty" ->
              /\ inflight' = (inflight \ {w}) \cup
                   {[w EXCEPT !.pc = "returned", !.outcome = "empty_reply"]}
              /\ UNCHANGED <<threadHistory, snapshot>>
         [] OTHER -> CatchGemini(w, res)
  /\ UNCHANGED <<env, arrived, dropped, threadQueues, queuesCreated, q, running,
                 timers, chats, chatSessions, done, failed>>

\* fcaApi.sendMessage settles
SendGemini(w) ==
  /\ variant = "gemini"
  /\ w \in inflight
  /\ w.pc = "send"
  /\ \E res \in {"ok", "block", "fail"} :
       IF res = "ok"
       THEN /\ inflight' = (inflight \ {w}) \cup
                   {[w EXCEPT !.pc = "returned", !.outcome = "replied"]}
            /\ UNCHANGED <<threadHistory, snapshot>>
       ELSE CatchGemini(w, res)
  /\ UNCHANGED <<env, arrived, dropped, threadQueues, queuesCreated, q, running,
                 timers, chats, chatSessions, done, failed>>

\* mutant of SettleGemini: the completion is signalled in the try block only,
\* so a task that threw never releases the worker
SettleGeminiNoFinally(w) ==
  /\ variant = "gemini"
  /\ w \in inflight
  /\ Ended(w)
  /\ inflight' = inflight \ {w}
  /\ done' = [done EXCEPT ![w.thread] = @ \cup {w.id}]
  /\ failed' = [failed EXCEPT ![w.thread] =
                  IF w.pc = "threw" THEN @ \cup {w.id} ELSE @]
  /\ IF w.pc = "threw"
     THEN UNCHANGED <<running, timers>>
     ELSE IF wrapAsync
     THEN /\ running' = [running EXCEPT ![w.thread] = @ - 1]
          /\ UNCHANGED timers
     ELSE /\ timers' = [timers EXCEPT ![w.thread] = TRUE]
          /\ UNCHANGED running
  /\ UNCHANGED <<env, arrived, dropped, threadQueues, queuesCreated, q,
                 threadHistory, snapshot, chats, chatSessions>>

\* the worker of createThreadQueue resumes after `await processMessageWithGemini`:
\* catch logs, finally runs setTimeout(callback, getRandomDelay()).  Under
\* wrapAsync the worker got no callback: setTimeout(undefined) throws, the
\* worker's promise rejects and the queue takes that as the completion.
SettleGemini(w) ==
  /\ variant = "gemini"
  /\ w \in inflight
  /\ Ended(w)
  /\ inflight' = inflight \ {w}
  /\ done' = [done EXCEPT ![w.thread] = @ \cup {w.id}]
  /\ failed' = [failed EXCEPT ![w.thread] =
                  IF w.pc = "threw" THEN @ \cup {w.id} ELSE @]
  /\ IF wrapAsync
     THEN /\ running' = [running EXCEPT ![w.thread] = @ - 1]
          /\ UNCHANGED timers
     ELSE /\ timers' = [timers EXCEPT ![w.thread] = TRUE]
          /\ UNCHANGED running
  /\ UNCHANGED <<env, arrived, dropped, threadQueues, queuesCreated, q,
                 threadHistory, snapshot, chats, chatSessions>>

\* mutant of TimerFires: the timer's callback does not reach the queue
TimerFiresNoRelease(t) ==
  /\ timers[t]
  /\ timers' = [timers EXCEPT ![t] = FALSE]
  /\ UNCHANGED <<env, arrived, dropped, threadQueues, queuesCreated, q, running,
                 inflight, threadHistory, snapshot, chats, chatSessions, done, failed>>

\* the pacing timer fires and calls the queue's callback
TimerFires(t) ==
  /\ timers[t]
  /\ timers' = [timers EXCEPT ![t] = FALSE]
  /\ running' = [running EXCEPT ![t] = @ - 1]
  /\ UNCHANGED <<env, arrived, dropped, threadQueues, queuesCreated, q, inflight,
                 threadHistory, snapshot, chats, chatSessions, done, failed>>

\* ------------------------------------------------------- processMessage
\* The body of processMessage (lines 317-460); the listener of "direct"
\* (lines 685-835) repeats it statement for statement.

\* threadID === senderID
IsSelfThread(t, senderID) == t = senderID

\* mutant of ReplyAction: the comparisons include the threshold
ReplyActionInclusive(reply, react, r) ==
  IF r <= reply THEN "MESSAGE"
  ELSE IF r <= reply + react THEN "REACTION"
  ELSE "IGNORE"

\* the body of getReplyAction for the weights reply, react and the draw r
ReplyAction(reply, react, r) ==
  IF r < reply THEN "MESSAGE"
  ELSE IF r < reply + react THEN "REACTION"
  ELSE "IGNORE"

\* getReplyAction for the draw r / PROB_SCALE under the configured weights
GetReplyAction(r) == ReplyAction(PROB_REPLY, PROB_REACT, r)

\* chat.sendMessage resolved: the chat object holds the user turn and the answer
ChatAppend(t, c) ==
  [chats EXCEPT ![t][c] = @ \o <<UserTurn, ModelTurn>>]

\* persistedHistory[threadID] = await chat.getHistory(); saveHistory()
PersistChat(t, c) ==
  /\ threadHistory' = [threadHistory EXCEPT ![t] = Entry(chats'[t][c])]
  /\ snapshot' = threadHistory'

\* fullUserMessage.toLowerCase().includes(BOT_NAME)
IsExplicitlyAddressed(body) == IncludesBotName(ToLowerCase(body))

\* mutant of SkipsClassifier: an attachment does not count
SkipsClassifierNameOnly(task) == IsExplicitlyAddressed(task.body)

\* if (isExplicitlyAddressed || hasAttachment) shouldProceed = true
SkipsClassifier(task) == IsExplicitlyAddressed(task.body) \/ task.att

\* from the entry of the handler to its first suspension: the admin command,
\* getChatSession, the attachment description and the addressed check
Begin(t, task) ==
  LET act(pcv, out, sentv, c) == Activation(t, task, pcv, out, sentv, c)
  IN IF task.body = Undefined
     THEN \* userMessage.toLowerCase() on undefined
          /\ inflight' = inflight \cup {act("threw", "type_error", {}, 0)}
          /\ UNCHANGED <<threadHistory, snapshot, chats, chatSessions>>
     ELSE IF ToLowerCase(task.body) = ResetCommand /\ IsSelfThread(t, task.senderID)
     THEN IF chatSessions[t] # 0
          THEN /\ chatSessions' = [chatSessions EXCEPT ![t] = 0]
               /\ threadHistory' = [threadHistory EXCEPT ![t] = Absent]
               /\ snapshot' = threadHistory'
               /\ inflight' = inflight \cup
                    {[act("returned", "reset", {"wiped"}, 0) EXCEPT !.saved = TRUE]}
               /\ UNCHANGED chats
          ELSE /\ inflight' = inflight \cup
                     {act("returned", "reset_noop", {"already_clear"}, 0)}
               /\ UNCHANGED <<threadHistory, snapshot, chats, chatSessions>>
     ELSE LET fresh == chatSessions[t] = 0
              c == IF fresh THEN Len(chats[t]) + 1 ELSE chatSessions[t]
          IN /\ chats' = IF fresh
                         THEN [chats EXCEPT ![t] = Append(@, threadHistory[t].turns)]
                         ELSE chats
             /\ chatSessions' = [chatSessions EXCEPT ![t] = c]
             /\ inflight' = inflight \cup
                  {IF SkipsClassifier(task)
                   THEN act("delay", "none", {}, c)
                   ELSE act("filter", "none", {}, c)}
             /\ UNCHANGED <<threadHistory, snapshot>>

\* shouldBotReply settles
FilterPM(w) ==
  /\ variant \in {"queue", "direct"}
  /\ w \in inflight
  /\ w.pc = "filter"
  /\ \E res \in {"yes", "no", "fail"} :
       inflight' = (inflight \ {w}) \cup
         {IF res = "yes" THEN [w EXCEPT !.pc = "delay"]
          ELSE [w EXCEPT !.pc = "returned", !.outcome = "filter_" \o res]}
  /\ UNCHANGED <<env, arrived, dropped, threadQueues, queuesCreated, q, running,
                 timers, threadHistory, snapshot, chats, chatSessions, done, failed>>

\* the reaction delay elapses: getReplyAction and the entry of the branch
DelayPM(w) ==
  /\ variant \in {"queue", "direct"}
  /\ w \in inflight
  /\ w.pc = "delay"
  /\ \E r \in 0..(PROB_SCALE - 1) :
       inflight' = (inflight \ {w}) \cup
         {CASE GetReplyAction(r) = "REACTION" ->
                 [w EXCEPT !.pc = "react_llm", !.sent = @ \cup {"reaction"}]
            [] GetReplyAction(r) = "MESSAGE" -> [w EXCEPT !.pc = "msg_llm"]
            [] OTHER -> [w EXCEPT !.pc = "ignore_llm"]}
  /\ UNCHANGED <<env, arrived, dropped, threadQueues, queuesCreated, q, running,
                 timers, threadHistory, snapshot, chats, chatSessions, done, failed>>

\* REACTION: chat.sendMessage settles
ReactPM(w) ==
  /\ variant \in {"queue", "direct"}
  /\ w \in inflight
  /\ w.pc = "react_llm"
  /\ \E res \in {"ok", "fail"} :
       IF res = "ok"
       THEN /\ chats' = ChatAppend(w.thread, w.chat)
            /\ PersistChat(w.thread, w.chat)
            /\ inflight' = (inflight \ {w}) \cup
                 {[w EXCEPT !.pc = "returned", !.outcome = "reacted",
                            !.saved = TRUE]}
       ELSE /\ inflight' = (inflight \ {w}) \cup
                 {[w EXCEPT !.pc = "returned", !.outcome = "react_fail"]}
            /\ UNCHANGED <<threadHistory, snapshot, chats>>
  /\ UNCHANGED <<env, arrived, dropped, threadQueues, queuesCreated, q, running,
                 timers, chatSessions, done, failed>>

\* MESSAGE: the typing timer fires and sends the typing indicator
TypingPM(w) ==
  /\ variant \in {"queue", "direct"}
  /\ w \in inflight
  /\ w.pc \in {"msg_llm", "msg_typing"}
  /\ ~w.typed
  /\ inflight' = (inflight \ {w}) \cup
       {[w EXCEPT !.typed = TRUE, !.sent = @ \cup {"typing"},
                  !.pc = IF w.pc = "msg_typing" THEN "typing_delay" ELSE @]}
  /\ UNCHANGED <<env, arrived, dropped, threadQueues, queuesCreated, q, running,
                 timers, threadHistory, snapshot, chats, chatSessions, done, failed>>

\* MESSAGE: chat.sendMessage settles; Promise.all waits for the typing timer
MessagePM(w) ==
  /\ variant \in {"queue", "direct"}
  /\ w \in inflight
  /\ w.pc = "msg_llm"
  /\ \E res \in {"ok", "fail"} :
       IF res = "ok"
       THEN /\ chats' = ChatAppend(w.thread, w.chat)
            /\ inflight' = (inflight \ {w}) \cup
                 {[w EXCEPT !.pc = IF w.typed THEN "typing_delay" ELSE "msg_typing"]}
       ELSE /\ inflight' = (inflight \ {w}) \cup
                 {[w EXCEPT !.pc = "returned", !.outcome = "apology",
                            !.sent = @ \cup {"apology"}]}
            /\ UNCHANGED chats
  /\ UNCHANGED <<env, arrived, dropped, threadQueues, queuesCreated, q, running,
                 timers, threadHistory, snapshot, chatSessions, done, failed>>

\* MESSAGE: the typing time elapses: the reply is sent, the history persisted
ReplyPM(w) ==
  /\ variant \in {"queue", "direct"}
  /\ w \in inflight
  /\ w.pc = "typing_delay"
  /\ UNCHANGED chats
  /\ PersistChat(w.thread, w.chat)
  /\ inflight' = (inflight \ {w}) \cup
       {[w EXCEPT !.pc = "returned", !.outcome = "replied",
                  !.sent = @ \cup {"message"}, !.saved = TRUE]}
  /\ UNCHANGED <<env, arrived, dropped, threadQueues, queuesCreated, q, running,
                 timers, chatSessions, done, failed>>

\* IGNORE: chat.sendMessage settles, outside any try block
IgnorePM(w) ==
  /\ variant \in {"queue", "direct"}
  /\ w \in inflight
  /\ w.pc = "ignore_llm"
  /\ \E res \in {"ok", "fail"} :
       IF res = "ok"
       THEN /\ chats' = ChatAppend(w.thread, w.chat)
            /\ PersistChat(w.thread, w.chat)
            /\ inflight' = (inflight \ {w}) \cup
                 {[w EXCEPT !.pc = "returned", !.outcome = "ignored",
                            !.saved = TRUE]}
       ELSE /\ inflight' = (inflight \ {w}) \cup
                 {[w EXCEPT !.pc = "threw", !.outcome = "ignore_fail"]}
            /\ UNCHANGED <<threadHistory, snapshot, chats>>
  /\ UNCHANGED <<env, arrived, dropped, threadQueues, queuesCreated, q, running,
                 timers, chatSessions, done, failed>>

\* ------------------------------------------------------ the bot "queue"
ListenQueue(t, ev) ==
  /\ variant = "queue"
  /\ proc = "listening"
  /\ Received < MaxEvents
  /\ arrived' = [arrived EXCEPT ![t] = @ + 1]
  /\ IF ev.type = "message"
     THEN Enqueue(t, Task(ev, arrived'[t])) /\ UNCHANGED dropped
     ELSE Drop(t, ev) /\ UNCHANGED <<threadQueues, queuesCreated, q>>
  /\ UNCHANGED <<env, running, timers, inflight,
                 threadHistory, snapshot, chats, chatSessions, done, failed>>

\* async.queue starts the worker of getThreadQueue on the oldest task.  The
\* worker evaluates `api`, which no enclosing scope declares: a
\* ReferenceError unless the global object carries it.
StartQueue(t) ==
  /\ variant = "queue"
  /\ t \in threadQueues
  /\ WorkerFree(t)
  /\ q[t] # <<>>
  /\ q' = [q EXCEPT ![t] = Tail(@)]
  /\ running' = [running EXCEPT ![t] = @ + 1]
  /\ IF apiBound
     THEN Begin(t, Head(q[t]))
     ELSE /\ inflight' = inflight \cup
               {Activation(t, Head(q[t]), "threw", "reference_error", {}, 0)}
          /\ UNCHANGED <<threadHistory, snapshot, chats, chatSessions>>
  /\ UNCHANGED <<env, arrived, dropped, threadQueues, queuesCreated, timers,
                 done, failed>>

\* the worker resumes after `await processMessage`: catch logs, finally calls
\* callback().  Under wrapAsync callback is undefined, the call throws, the
\* worker's promise rejects and the queue takes that as the completion.
SettleQueue(w) ==
  /\ variant = "queue"
  /\ w \in inflight
  /\ Ended(w)
  /\ inflight' = inflight \ {w}
  /\ done' = [done EXCEPT ![w.thread] = @ \cup {w.id}]
  /\ failed' = [failed EXCEPT ![w.thread] =
                  IF w.pc = "threw" THEN @ \cup {w.id} ELSE @]
  /\ running' = [running EXCEPT ![w.thread] = @ - 1]
  /\ UNCHANGED <<env, arrived, dropped, threadQueues, queuesCreated, q, timers,
                 threadHistory, snapshot, chats, chatSessions>>

\* ----------------------------------------------------- the bot "direct"
\* the listener callback runs the handler itself, up to its first suspension
ListenDirect(t, ev) ==
  /\ variant = "direct"
  /\ proc = "listening"
  /\ Received < MaxEvents
  /\ arrived' = [arrived EXCEPT ![t] = @ + 1]
  /\ IF ev.type = "message"
     THEN Begin(t, Task(ev, arrived'[t])) /\ UNCHANGED dropped
     ELSE /\ Drop(t, ev)
          /\ UNCHANGED <<inflight, threadHistory, snapshot, chats, chatSessions>>
  /\ UNCHANGED <<env, threadQueues, queuesCreated, q, running, timers,
                 done, failed>>

\* the promise of the listener callback settles
SettleDirect(w) ==
  /\ variant = "direct"
  /\ w \in inflight
  /\ Ended(w)
  /\ inflight' = inflight \ {w}
  /\ done' = [done EXCEPT ![w.thread] = @ \cup {w.id}]
  /\ failed' = [failed EXCEPT ![w.thread] =
                  IF w.pc = "threw" THEN @ \cup {w.id} ELSE @]
  /\ UNCHANGED <<env, arrived, dropped, threadQueues, queuesCreated, q, running,
                 timers, threadHistory, snapshot, chats, chatSessions>>

Next ==
  \/ Boot
  \/ \E t \in Threads : \E ev \in EventKinds(t) : ListenGemini(t, ev)
  \/ \E t \in Threads : StartGemini(t)
  \/ \E w \in inflight : FilterGemini(w)
  \/ \E w \in inflight : ReactGemini(w)
  \/ \E w \in inflight : LlmGemini(w)
  \/ \E w \in inflight : SendGemini(w)
  \/ \E w \in inflight : SettleGemini(w)
  \/ \E t \in Threads : TimerFires(t)
  \/ \E t \in Threads : \E ev \in EventKinds(t) : ListenQueue(t, ev)
  \/ \E t \in Threads : StartQueue(t)
  \/ \E w \in inflight : SettleQueue(w)
  \/ \E t \in Threads : \E ev \in EventKinds(t) : ListenDirect(t, ev)
  \/ \E w \in inflight : SettleDirect(w)
  \/ \E w \in inflight : FilterPM(w)
  \/ \E w \in inflight : DelayPM(w)
  \/ \E w \in inflight : ReactPM(w)
  \/ \E w \in inflight : TypingPM(w)
  \/ \E w \in inflight : MessagePM(w)
  \/ \E w \in inflight : ReplyPM(w)
  \/ \E w \in inflight : IgnorePM(w)

Spec == Init /\ [][Next]_vars

\* ------------------------------------------- getReplyAction on its own
\* any weights with REPLY + REACT <= 1 and any draw of Math.random
InitPolicy ==
  /\ variant \in {"queue", "direct"}
  /\ wrapAsync = FALSE
  /\ apiBound = TRUE
  /\ configFile = "ok"
  /\ appStateFile = "ok"
  /\ historyFile = "missing"
  /\ proc = "listening"
  /\ policy \in {p \in [REPLY : 0..PolicyScale, REACT : 0..PolicyScale,
                         r : 0..(PolicyScale - 1), action : {"none"}] :
                   p.REPLY + p.REACT <= PolicyScale}
  /\ arrived = [t \in Threads |-> 0]
  /\ dropped = [t \in Threads |-> {}]
  /\ threadQueues = {}
  /\ queuesCreated = [t \in Threads |-> 0]
  /\ q = [t \in Threads |-> <<>>]
  /\ running = [t \in Threads |-> 0]
  /\ timers = [t \in Threads |-> FALSE]
  /\ inflight = {}
  /\ threadHistory = [t \in Threads |-> Absent]
  /\ snapshot = [t \in Threads |-> Absent]
  /\ chats = [t \in Threads |-> <<>>]
  /\ chatSessions = [t \in Threads |-> 0]
  /\ done = [t \in Threads |-> {}]
  /\ failed = [t \in Threads |-> {}]

\* one call of getReplyAction
Decide ==
  /\ policy.action = "none"
  /\ policy' = [policy EXCEPT !.action = ReplyAction(policy.REPLY, policy.REACT, policy.r)]
  /\ UNCHANGED <<variant, wrapAsync, apiBound, configFile, appStateFile, historyFile,
                 proc, arrived, dropped, threadQueues, queuesCreated, q, running,
                 timers, inflight, threadHistory, snapshot, chats, chatSessions,
                 done, failed>>

NextPolicy == Decide

SpecPolicy == InitPolicy /\ [][NextPolicy]_vars

\* ========================================================== properties
QueueVariant == variant \in {"gemini", "queue"}

\* the sender is in the admin allow-list or writes in a self-addressed thread
AllowedSender(w) == w.senderID \in ADMIN_UIDS \/ w.senderID = w.thread

\* no two consecutive turns of h have the same role
Alternates(h) == \A i \in 1..(Len(h) - 1) : h[i].role # h[i + 1].role

\* the two most recent turns of h are user turns
EndsWithTwoUserTurns(h) ==
  Len(h) > 1 /\ h[Len(h)].role = "user" /\ h[Len(h) - 1].role = "user"

\* some step of the queue or of a handler of thread t
ThreadStep(t) ==
  \/ StartGemini(t)
  \/ StartQueue(t)
  \/ TimerFires(t)
  \/ \E w \in OnThread(t) :
       \/ FilterGemini(w) \/ ReactGemini(w) \/ LlmGemini(w) \/ SendGemini(w)
       \/ SettleGemini(w) \/ SettleQueue(w)
       \/ FilterPM(w) \/ DelayPM(w) \/ ReactPM(w) \/ TypingPM(w)
       \/ MessagePM(w) \/ ReplyPM(w) \/ IgnorePM(w)

\* C1: in the two queue-based bots at most one task of a conversation is
\* started and not yet let go by the worker (its handler suspended on a
\* network call or delay, or returned and waiting for the worker to resume)
C1_OneTaskPerConversation ==
  QueueVariant => \A t \in Threads : Cardinality(OnThread(t)) <= 1

\* C1 witness: a task is suspended on a network call while another task of
\* the same conversation waits in the queue
C1_Witness ==
  /\ QueueVariant
  /\ \E t \in Threads : \E w \in OnThread(t) :
       w.pc \in {"llm", "msg_llm"} /\ q[t] # <<>>

\* C2: in the queue-based bots the tasks of a conversation are processed in
\* enqueue order: a task is started only when every task pushed before it
\* on the same queue has ended
C2_FifoPerConversation ==
  QueueVariant =>
    \A t \in Threads :
      \A b \in {w.id : w \in OnThread(t)} \cup done[t] :
        \A a \in 1..(b - 1) : a \in done[t] \cup {d[1] : d \in dropped[t]}

\* C2 witness: the second task of a conversation is being processed after
\* the first one has ended
C2_Witness ==
  /\ QueueVariant
  /\ \E t \in Threads : 1 \in done[t] /\ \E w \in OnThread(t) : w.id = 2

\* C3: a queue that holds tasks can always take a step, also after a task
\* has thrown: its worker is free to start the next task, or a handler of
\* the conversation or the pacing timer is still to complete
C3_QueueNeverStuck ==
  QueueVariant => \A t \in Threads : q[t] # <<>> => ENABLED ThreadStep(t)

\* C3 witness: task 1 of a conversation threw, the worker caught it, and
\* task 2 of the same queue is being processed
C3_Witness ==
  /\ QueueVariant
  /\ \E t \in Threads : 1 \in failed[t] /\ \E w \in OnThread(t) : w.id = 2

\* C4 (as claimed): in every bot of the file at most one handler of a
\* conversation is between obtaining the history and saving it
C4_NoInterleavedHistoryUpdate ==
  \A t \in Threads : Cardinality({w \in OnThread(t) : ~Ended(w)}) <= 1

\* C5 (as claimed): right after the trimming step of processMessageWithGemini
\* the history holds at most 2 * CONTEXT_WINDOW turns
C5_TrimmedWithinCap ==
  \A w \in inflight :
    (variant = "gemini" /\ w.pc = "llm") => Len(w.pre) <= 2 * CONTEXT_WINDOW

\* C6 (as claimed): the history processMessageWithGemini passes to the main
\* LLM call has no two consecutive turns of the same role
C6_AlternatesAfterRepair ==
  \A w \in inflight :
    (variant = "gemini" /\ w.pc = "llm") =>
      Alternates(threadHistory[w.thread].turns)

\* C7 (as claimed): when the two most recent turns are user turns, the repair
\* puts one model placeholder between them and keeps every other turn in place
C7_PlaceholderBetweenUserTurns ==
  \A w \in inflight :
    (variant = "gemini" /\ w.pc = "llm" /\ EndsWithTwoUserTurns(w.pre)) =>
      threadHistory[w.thread].turns =
        SpliceInsert(w.pre, Len(w.pre) - 1, ModelPlaceholder)

\* C8 (as claimed): once a "!history reset" message of an allowed sender has
\* been processed, the conversation's history is empty in memory and in the
\* snapshot
C8_ResetLeavesEmptyHistory ==
  \A w \in inflight :
    (Ended(w) /\ w.body = ResetCommand /\ AllowedSender(w)) =>
      /\ threadHistory[w.thread].turns = <<>>
      /\ snapshot[w.thread].turns = <<>>

\* C9: the reset branch is taken only for a sender in the admin allow-list
\* or in a self-addressed thread; from anyone else "!history reset" never
\* ends as a reset
C9_ResetOnlyByAllowedSender ==
  \A w \in inflight :
    w.outcome \in {"reset", "reset_noop"} => AllowedSender(w)

\* C9 witness: "!history reset" of a sender who is not allowed went on as an
\* ordinary message up to the main LLM call, the history not being empty
C9_Witness ==
  \E w \in inflight :
    /\ w.body = ResetCommand
    /\ ~AllowedSender(w)
    /\ w.pc \in {"llm", "msg_llm"}
    /\ threadHistory[w.thread].turns # <<>>

\* the outcomes of a task whose filter call threw or answered negatively
FilterNegative ==
  {"filter_ignore", "filter_other", "filter_block", "filter_fail", "filter_no"}

\* A task that fails closed takes two steps: it starts and suspends on the
\* filter call, and the filter call settles negatively.  Neither step makes
\* an outbound call or changes the turns of any history or the snapshot, and
\* the task returns; with blockClears, a filter call of
\* processMessageWithGemini that failed with a "block" error instead deletes
\* the conversation's history and saves the snapshot
FailClosedStep(blockClears) ==
  /\ \A v \in inflight' :
       (v.pc = "filter" /\ ~\E w \in inflight : w.id = v.id /\ w.thread = v.thread) =>
         /\ v.sent = {}
         /\ \A t \in Threads : threadHistory'[t].turns = threadHistory[t].turns
         /\ snapshot' = snapshot
  /\ \A w \in inflight : \A v \in inflight' :
       (w.pc = "filter" /\ v.id = w.id /\ v.thread = w.thread
          /\ v.outcome \in FilterNegative) =>
         /\ v.pc = "returned"
         /\ v.sent = {}
         /\ chats' = chats
         /\ IF blockClears /\ v.outcome = "filter_block"
            THEN /\ threadHistory' = [threadHistory EXCEPT ![w.thread] = Absent]
                 /\ snapshot' = threadHistory'
            ELSE /\ threadHistory' = threadHistory
                 /\ snapshot' = snapshot

\* C10 (as claimed): a filter call that throws or answers negatively ends the
\* task with no outbound call and with the history unchanged
C10_FailClosedOriginal == [][FailClosedStep(FALSE)]_vars

\* C10 (amended): a filter call that throws or answers negatively ends the
\* task with no outbound call and with the turns of the history unchanged,
\* except that a filter call of processMessageWithGemini failing with a
\* "block" error deletes the conversation's history and saves the snapshot
C10_FailClosed == [][FailClosedStep(TRUE)]_vars

\* C10 witness: a filter call threw, the task returned without any outbound
\* call and the conversation still has its history
C10_Witness ==
  \E w \in inflight :
    /\ w.outcome = "filter_fail"
    /\ w.pc = "returned"
    /\ w.sent = {}
    /\ threadHistory[w.thread].turns # <<>>

\* the bots that run the body of processMessage
ProcessMessageVariant == variant \in {"queue", "direct"}

\* the positions of processMessage behind getReplyAction
Decided == {"react_llm", "msg_llm", "msg_typing", "typing_delay", "ignore_llm"}

\* the outcomes of processMessage behind getReplyAction
DecidedOutcomes ==
  {"reacted", "react_fail", "replied", "apology", "ignored", "ignore_fail"}

BranchOutcomesGemini ==
  {"reacted", "react_block", "react_fail", "llm_block", "llm_fail", "empty_reply",
   "replied", "send_block", "send_fail"}

\* C12 (as claimed): a task that passed the should-respond check has called
\* saveHistory by the time it ends, whichever branch it took
C12_EveryBranchPersists ==
  \A w \in inflight :
    (Ended(w) /\ w.outcome \in BranchOutcomesGemini \cup DecidedOutcomes) => w.saved

\* C13 (as claimed): whenever the bot listens and no task is in flight, the
\* history file holds, for every conversation, the turns of the in-memory
\* history
C13_SnapshotEqualsMemoryAtRest ==
  (proc = "listening" /\ inflight = {}) =>
    \A t \in Threads : snapshot[t].turns = threadHistory[t].turns

\* the outcomes of processMessageWithGemini after an error whose message
\* contains "block"
BlockOutcomes == {"filter_block", "react_block", "llm_block", "send_block"}

\* the step in which a call of processMessageWithGemini fails with a "block"
\* error removes the conversation's history from memory and from the file
\* and leaves the in-memory history of every other conversation as it was
BlockStep ==
  \A w \in inflight : \A v \in inflight' :
    (variant = "gemini" /\ ~Ended(w) /\ v.id = w.id /\ v.thread = w.thread
       /\ v.outcome \in BlockOutcomes) =>
      /\ v.pc = "returned"
      /\ threadHistory'[w.thread] = Absent
      /\ snapshot'[w.thread] = Absent
      /\ \A t \in Threads \ {w.thread} : threadHistory'[t] = threadHistory[t]

TaskTypes == {"message", "message_reply"}

\* C15 (as claimed): an event is turned into a task exactly when its type is
\* message or message_reply: the listener lets no event of these types go,
\* and every task waiting or being processed was built from one of them
C15_TaskIffMessageType ==
  /\ \A t \in Threads : \A d \in dropped[t] : d[2] \notin TaskTypes
  /\ \A t \in Threads : \A i \in 1..Len(q[t]) : q[t][i].type \in TaskTypes
  /\ \A w \in inflight : w.type \in TaskTypes

\* C16 (as claimed): with config.json or appstate.json missing or malformed
\* the process ends with a non-zero status and never listens; a missing or
\* malformed history file is not fatal: the bot comes up listening, with an
\* empty history map
C16_FatalAndNonFatalStartup ==
  /\ (configFile # "ok" \/ appStateFile # "ok") => proc \in {"boot", "exit1"}
  /\ (configFile = "ok" /\ appStateFile = "ok") => proc \in {"boot", "listening"}
  /\ (proc = "listening" /\ historyFile # "ok" /\ Received = 0) =>
       \A t \in Threads : threadHistory[t].turns = <<>>

\* a step of a queue-based bot keeps every queue in the Map and creates none
\* except for a conversation that had none; a step that turns an event of
\* thread t into a task creates t's queue exactly when the Map lacked it, puts
\* the task behind the waiting ones and starts no handler
EnqueueStep ==
  QueueVariant =>
    /\ threadQueues \subseteq threadQueues'
    /\ \A t \in Threads :
         /\ queuesCreated'[t] =
              queuesCreated[t] + (IF t \in threadQueues' \ threadQueues THEN 1 ELSE 0)
         /\ (arrived'[t] # arrived[t] /\ dropped'[t] = dropped[t]) =>
              /\ t \in threadQueues'
              /\ Len(q'[t]) = Len(q[t]) + 1
              /\ SubSeq(q'[t], 1, Len(q[t])) = q[t]
              /\ q'[t][Len(q'[t])].messageID = arrived'[t]
              /\ inflight' = inflight
              /\ running' = running

\* C17: in the queue-based bots enqueueing creates the conversation's queue
\* exactly when the Map has none, appends the task and returns without
\* processing it; a conversation never has more than one queue, a queue in
\* the Map is never removed or replaced, and tasks wait only in that queue
C17_OneQueuePerConversation ==
  /\ [][EnqueueStep]_vars
  /\ [](QueueVariant =>
          \A t \in Threads :
            /\ queuesCreated[t] = (IF t \in threadQueues THEN 1 ELSE 0)
            /\ t \notin threadQueues => q[t] = <<>>)

\* C17 witness: two tasks of one conversation wait in its queue, the only
\* one ever created for it
C17_Witness ==
  /\ QueueVariant
  /\ \E t \in Threads :
       t \in threadQueues /\ queuesCreated[t] = 1 /\ Len(q[t]) = 2

\* the worker of thread t's queue can start on the oldest waiting task
StartTask(t) == StartGemini(t) \/ StartQueue(t)

\* C18: in the queue-based bots a task of one conversation that is in flight,
\* suspended or ended by a throw, never keeps a waiting task of another
\* conversation from starting: whenever conversation b has a task waiting
\* and none of its own started, its worker can start, whatever the tasks of
\* the other conversations do
C18_ConversationsIndependent ==
  QueueVariant =>
    \A a, b \in Threads :
      (a # b /\ OnThread(a) # {} /\ q[b] # <<>> /\ running[b] = 0) =>
        ENABLED StartTask(b)

\* C18 witness: tasks of two conversations are suspended on their LLM calls
\* at the same time
C18_Witness ==
  /\ QueueVariant
  /\ \E w, v \in inflight :
       /\ w.thread # v.thread
       /\ w.pc \in {"filter", "llm", "msg_llm"}
       /\ v.pc \in {"filter", "llm", "msg_llm"}

\* C19: for weights with REPLY + REACT <= 1 and a draw r in [0,1),
\* getReplyAction returns MESSAGE iff r < REPLY, REACTION iff
\* REPLY <= r < REPLY + REACT, and IGNORE iff REPLY + REACT <= r: one of the
\* three actions for every draw
C19_ThreeWayPartition ==
  policy.action # "none" =>
    /\ policy.action \in {"MESSAGE", "REACTION", "IGNORE"}
    /\ policy.action = "MESSAGE" <=> policy.r < policy.REPLY
    /\ policy.action = "REACTION" <=>
         (policy.REPLY <= policy.r /\ policy.r < policy.REPLY + policy.REACT)
    /\ policy.action = "IGNORE" <=> policy.REPLY + policy.REACT <= policy.r

\* C19 witness: a draw that equals the first threshold is given REACTION
C19_Witness ==
  /\ policy.action = "REACTION"
  /\ policy.r = policy.REPLY
  /\ policy.REPLY > 0
  /\ policy.REPLY + policy.REACT < PolicyScale

\* the two most recent turns of h are a user turn and the model's answer
EndsWithPair(h) ==
  Len(h) > 1 /\ h[Len(h) - 1] = UserTurn /\ h[Len(h)] = ModelTurn

\* C20 (as claimed): a task that took the MESSAGE branch and sent its reply
\* leaves the history ending with the user turn and the answer, and no task
\* of processMessageWithGemini that took the MESSAGE branch ends with its
\* user turn in the history and no answer behind it
C20_ReplyLeavesBothTurns ==
  \A w \in inflight :
    Ended(w) =>
      /\ w.outcome = "replied" => EndsWithPair(threadHistory[w.thread].turns)
      /\ (variant = "gemini" /\ w.pre # <<>>) =>
           threadHistory[w.thread].turns # Repair(w.pre)

\* h holds a turn of a user
HoldsUserTurn(h) == \E i \in 1..Len(h) : h[i] = UserTurn

\* the outcomes of a task that took the REACTION branch
ReactOutcomes == {"reacted", "react_fail", "react_block"}

\* C21 (as claimed): a task that took the REACTION branch has attempted its
\* reaction and sent no reply text, and when it ends the conversation's
\* history holds the user's turn
C21_ReactRecordsUserTurn ==
  \A w \in inflight :
    (Ended(w) /\ w.outcome \in ReactOutcomes) =>
      /\ "reaction" \in w.sent
      /\ "message" \notin w.sent
      /\ HoldsUserTurn(threadHistory[w.thread].turns)

\* the outcomes of a task that took the IGNORE branch
IgnoreOutcomes == {"ignored", "ignore_fail", "filter_ignore"}

\* C22 (as claimed): a task that took the IGNORE branch made no outbound
\* platform call, and when it ends the conversation's history holds the
\* user's turn
C22_IgnoreRecordsUserTurn ==
  \A w \in inflight :
    (Ended(w) /\ w.outcome \in IgnoreOutcomes) =>
      /\ w.sent = {}
      /\ HoldsUserTurn(threadHistory[w.thread].turns)

\* C23 (as claimed): in the queue-based bots the worker of a conversation is
\* given back to the queue, so that the next task can start, only by the
\* pacing timer that was armed when the task ended
C23_PacingDelayBetweenTasks ==
  [][QueueVariant =>
       \A t \in Threads : running'[t] < running[t] => timers[t] /\ ~timers'[t]]_vars

\* the step of processMessageWithGemini that pushes the user turn of task w
\* and trims: when the history then exceeds 2 * CONTEXT_WINDOW turns, the
\* turns taken away are the two oldest, a user turn and the model turn behind
\* it, and the turns that stay are the rest in their order, alternate and
\* start with a user turn
TrimStep ==
  \A w \in inflight : \A v \in inflight' :
    (variant = "gemini" /\ w.pc = "filter" /\ v.pc = "llm"
       /\ v.id = w.id /\ v.thread = w.thread) =>
      LET p == Append(threadHistory[w.thread].turns, UserTurn)
      IN Len(p) > 2 * CONTEXT_WINDOW =>
           /\ v.pre = SubSeq(p, 3, Len(p))
           /\ p[1].role = "user"
           /\ p[2].role = "model"
           /\ Alternates(v.pre)
           /\ v.pre[1].role = "user"

\* C24 (as claimed): whenever trimming fires, the two oldest turns are
\* removed, they are a user turn and a model turn, and the remaining turns
\* keep their order, alternate and start with a user turn
C24_TrimDropsOldestPair == [][TrimStep]_vars

\* the outcomes of a task whose main reply-generation call failed
ReplyCallFailed == {"apology", "llm_fail", "llm_block"}

\* C25 (as claimed): a task whose main reply-generation call failed has sent
\* the apology and no generated reply, and has returned normally
C25_ApologyOnReplyFailure ==
  \A w \in inflight :
    w.outcome \in ReplyCallFailed =>
      /\ w.pc = "returned"
      /\ "apology" \in w.sent
      /\ "message" \notin w.sent

\* the step in which an outbound platform call of task w fails leaves every
\* history and the history file as they were
PlatformFailureStep ==
  \A w \in inflight : \A v \in inflight' :
    (variant = "gemini" /\ w.pc \in {"react", "send"}
       /\ v.id = w.id /\ v.thread = w.thread
       /\ v.outcome \in {"react_block", "react_fail", "send_block", "send_fail"}) =>
      /\ \A t \in Threads : threadHistory'[t].turns = threadHistory[t].turns
      /\ \A t \in Threads : snapshot'[t].turns = snapshot[t].turns

\* C26 (as claimed): a failure of an outbound platform call (set-reaction,
\* send-message) is only logged: the conversation's history and the history
\* file stay as they were before the failure
C26_PlatformFailureKeepsHistory == [][PlatformFailureStep]_vars

\* The event loop runs every callback that is ready, and every external call
\* and timer eventually settles: a step of a conversation's queue or of one
\* of its handlers that stays possible is eventually taken.
FairSpec == Spec /\ \A t \in Threads : WF_vars(ThreadStep(t))

\* the messageIDs of the tasks waiting in thread t's queue
Queued(t) == {q[t][i].messageID : i \in 1..Len(q[t])}

\* the messageIDs of the tasks of thread t being processed
Started(t) == {w.id : w \in OnThread(t)}

\* every event of a conversation that was turned into a task is in exactly
\* one place: waiting, being processed by one handler, or ended
EachTaskInOnePlace ==
  \A t \in Threads :
    /\ Len(q[t]) = Cardinality(Queued(t))
    /\ Cardinality(OnThread(t)) = Cardinality(Started(t))
    /\ Queued(t) \cap Started(t) = {}
    /\ Queued(t) \cap done[t] = {}
    /\ Started(t) \cap done[t] = {}
    /\ Queued(t) \cup Started(t) \cup done[t] \cup {d[1] : d \in dropped[t]}
         = 1..arrived[t]

\* C27: in the queue-based bots, when external calls and timers settle, every
\* task pushed on a conversation's queue is started and runs to its end once:
\* a task is always in exactly one of the queue, a single handler, or the
\* ended tasks, and again and again the conversation has no task waiting or
\* being processed, so that every task pushed so far has ended
C27_EveryTaskRunsOnce ==
  /\ [](QueueVariant => EachTaskInOnePlace)
  /\ \A t \in Threads : []<>(QueueVariant => Queued(t) \cup Started(t) = {})

\* C27 witness: both tasks of a conversation have ended, the first one by a
\* throw, and nothing of the conversation is waiting or being processed
C27_Witness ==
  /\ QueueVariant
  /\ \E t \in Threads :
       /\ done[t] = {1, 2}
       /\ 1 \in failed[t]
       /\ q[t] = <<>>
       /\ OnThread(t) = {}

\* the step is one of conversation t: an event of t arrives, or a queue,
\* timer or handler of t moves
ActsOn(t) ==
  \/ arrived'[t] # arrived[t]
  \/ q'[t] # q[t]
  \/ timers'[t] # timers[t]
  \/ running'[t] # running[t]
  \/ {w \in inflight' : w.thread = t} # OnThread(t)

\* once the bot listens, a step that is not one of conversation b leaves b's
\* history, chat objects and chat session in memory and b's turns in the
\* history file as they were
FrameStep ==
  proc = "listening" =>
    \A b \in Threads :
      ~ActsOn(b) =>
        /\ threadHistory'[b] = threadHistory[b]
        /\ chats'[b] = chats[b]
        /\ chatSessions'[b] = chatSessions[b]
        /\ snapshot'[b].turns = snapshot[b].turns

\* C28 (as claimed): processing a task of one conversation never changes the
\* in-memory history, the chat session or the content in the history file of
\* another conversation
C28_OtherConversationsUntouched == [][FrameStep]_vars

====
